---- MODULE Spec2Model ----
(***************************************************************************)
(* Appointment booking of the FHIR MCP server (src/fhir_mcp_server.py):    *)
(* the tool create_appointment, the FHIRClient it calls, and the FHIR      *)
(* store behind the client.  One action per await point of the handler.    *)
(***************************************************************************)
EXTENDS Integers, Sequences, FiniteSets, TLC

VARIABLES
    store,                \* the Appointment resources held by the FHIR server, in search order
    pc,                   \* per attempt: position in create_appointment
    request,              \* per attempt: the arguments of create_appointment
    calls,                \* per attempt: the HTTP requests made so far, <<method, how it ended>>
    updated_appointment,  \* per attempt: the resource built for client.update (<<>> if none)
    result                \* per attempt: the value returned by create_appointment

vars == <<store, pc, request, calls, updated_appointment, result>>

-----------------------------------------------------------------------------
(* Bounds of the model *)

\* the instants of the model are the hours 0..MaxT of one calendar day
MaxT == 3

\* the invocations of the tool; each runs create_appointment once
Procs == {"a1", "a2"}

-----------------------------------------------------------------------------
(* Values *)

\* Python's None and "" are both falsy, and every test the handler makes on
\* its optional arguments is a truthiness test: one value stands for both.
None == ""

Patients == {"x"}
Practitioners == {"p", "q"}
Locations == {"l"}

\* An ISO timestamp string is <<hour>>: the text of an instant.  NoTime is
\* the absent (None or "") timestamp, Unparseable a string that is no
\* timestamp.
NoTime == <<>>
Unparseable == <<0 - 1>>
Timestamps == {<<h>> : h \in 0..MaxT}

\* dateutil.parser.parse: the instant a timestamp string denotes; it raises
\* on a string that is no timestamp
CanParse(s) == s \in Timestamps
parse(s) == s[1]

\* the calendar date a timestamp string is written on
DateOf(s) == s[1] \div 24

\* f"Practitioner/{practitioner_id}", the reference of a participant
Ref(kind, id) == <<kind, id>>
NoActor == <<>>

\* details.text of an issue: the message, and the start and end a conflict
\* message quotes
Text(msg, start, end) == [msg |-> msg, start |-> start, end |-> end]
NoText == Text("", NoTime, NoTime)

\* The values the client and the tool return: a Bundle of search entries, an
\* OperationOutcome with its issue code and text, or an Appointment resource.
Bundle(entries) ==
    [resourceType |-> "Bundle", code |-> "", text |-> NoText, entry |-> entries]
OperationOutcome(code, text) ==
    [resourceType |-> "OperationOutcome", code |-> code, text |-> text, entry |-> <<>>]
Resource(a) ==
    [resourceType |-> "Appointment", code |-> "", text |-> NoText, entry |-> <<a>>]
NoResult ==
    [resourceType |-> "", code |-> "", text |-> NoText, entry |-> <<>>]

NoRequest ==
    [patient_id |-> None, practitioner_id |-> None, location_id |-> None,
     start_time |-> NoTime, end_time |-> NoTime, status |-> "booked"]

-----------------------------------------------------------------------------
(* The FHIR store behind the client *)

\* how one HTTP request may end: normally; with status 401 or 404; with a
\* timeout (for a POST, after the server handled it); or with a 2xx body
\* that is not JSON.  "status" is the error status of a request the server
\* refuses.
Faults == {"none", "401", "404", "timeout", "badjson"}

\* Appointment?date=..&status=..&actor=..: the appointments on the date of
\* the date parameter, with the given status and actor when those are given
StoreMatches(a, params) ==
    /\ a.start # NoTime
    /\ DateOf(a.start) = DateOf(params.date)
    /\ params.status = None \/ a.status = params.status
    /\ params.actor = NoActor
         \/ \E i \in 1..Len(a.participant) : a.participant[i] = params.actor

StoreSearch(params) ==
    SelectSeq(store, LAMBDA a : StoreMatches(a, params))

\* the server refuses a request whose date or timestamps it cannot read
StoreRejectsSearch(params) == ~CanParse(params.date)
StoreRejectsCreate(a) == ~CanParse(a.start) \/ ~CanParse(a.end)

\* POST Appointment: the server assigns the id and keeps the resource
StoreCreate(a) == [a EXCEPT !.id = Len(store) + 1]

\* whether a POST that ended with the fault was carried out by the server
StorePersists(a, fault) ==
    fault \in {"none", "timeout", "badjson"} /\ ~StoreRejectsCreate(a)

-----------------------------------------------------------------------------
(* FHIRClient *)

\* _req, were a refused request reported under the code "conflict"
FHIRClient_reqAsConflict(fault, body) ==
    IF fault \in {"401", "403", "404"}
    THEN [raised |-> FALSE, value |-> OperationOutcome("conflict", Text("r.text", NoTime, NoTime))]
    ELSE IF fault \in {"status", "timeout"}
    THEN [raised |-> FALSE, value |-> OperationOutcome("exception", Text("HTTPError", NoTime, NoTime))]
    ELSE IF fault = "badjson"
    THEN [raised |-> TRUE, value |-> OperationOutcome("exception", Text("JSONDecodeError", NoTime, NoTime))]
    ELSE [raised |-> FALSE, value |-> body]

\* _req: the outcome of one HTTP request, as [raised, value].  401, 403 and
\* 404 become an OperationOutcome "http-<status>"; raise_for_status and
\* network errors are httpx.HTTPError and become an OperationOutcome
\* "exception"; r.json() on a body that is not JSON raises past _req.
FHIRClient_req(fault, body) ==
    IF fault \in {"401", "403", "404"}
    THEN [raised |-> FALSE, value |-> OperationOutcome("http-" \o fault, Text("r.text", NoTime, NoTime))]
    ELSE IF fault \in {"status", "timeout"}
    THEN [raised |-> FALSE, value |-> OperationOutcome("exception", Text("HTTPError", NoTime, NoTime))]
    ELSE IF fault = "badjson"
    THEN [raised |-> TRUE, value |-> OperationOutcome("exception", Text("JSONDecodeError", NoTime, NoTime))]
    ELSE [raised |-> FALSE, value |-> body]

\* how a request ends when the network does `fault` to it
SearchEnds(params, fault) ==
    IF fault = "none" /\ StoreRejectsSearch(params) THEN "status" ELSE fault
CreateEnds(a, fault) ==
    IF fault = "none" /\ StoreRejectsCreate(a) THEN "status" ELSE fault

\* search(rt, **params): GET Appointment with the parameters
FHIRClient_search(params, fault) ==
    FHIRClient_req(SearchEnds(params, fault), Bundle(StoreSearch(params)))

\* create(resource_type, data): POST Appointment
FHIRClient_create(a, fault) ==
    FHIRClient_req(CreateEnds(a, fault), Resource(StoreCreate(a)))

-----------------------------------------------------------------------------
(* create_appointment *)

Actors(r) ==
    <<Ref("Patient", r.patient_id)>>
    \o (IF r.practitioner_id # None THEN <<Ref("Practitioner", r.practitioner_id)>> ELSE <<>>)
    \o (IF r.location_id # None THEN <<Ref("Location", r.location_id)>> ELSE <<>>)

\* the parameters of the search for free appointments: the location, when
\* given, replaces the practitioner under the one key "actor"
search_params(r) ==
    [date |-> r.start_time, status |-> "free",
     actor |-> IF r.location_id # None THEN Ref("Location", r.location_id)
               ELSE IF r.practitioner_id # None THEN Ref("Practitioner", r.practitioner_id)
               ELSE NoActor]

\* conflict_search_params, were the status filter of the free search kept
conflict_search_paramsFree(r) ==
    [date |-> r.start_time, status |-> "free",
     actor |-> IF r.practitioner_id # None THEN Ref("Practitioner", r.practitioner_id)
               ELSE NoActor]

\* conflict_search_params, were the search of a request without practitioner
\* filtered by its location
conflict_search_paramsOfLocation(r) ==
    [date |-> r.start_time, status |-> None,
     actor |-> IF r.practitioner_id # None THEN Ref("Practitioner", r.practitioner_id)
               ELSE IF r.location_id # None THEN Ref("Location", r.location_id)
               ELSE NoActor]

\* the parameters of the search for conflicting appointments
conflict_search_params(r) ==
    [date |-> r.start_time, status |-> None,
     actor |-> IF r.practitioner_id # None THEN Ref("Practitioner", r.practitioner_id)
               ELSE NoActor]

\* the four dateutil.parser.parse calls made for an entry with start and end
ParsesAll(r, a) ==
    CanParse(r.start_time) /\ CanParse(r.end_time) /\ CanParse(a.start) /\ CanParse(a.end)

\* "times match exactly or overlap"
SlotMatches(r, a) ==
    LET req_start == parse(r.start_time)
        req_end == parse(r.end_time)
        exist_start == parse(a.start)
        exist_end == parse(a.end)
    IN  (req_start = exist_start /\ req_end = exist_end)
        \/ (req_start < exist_end /\ req_end > exist_start)

\* Conflicts, were only a request that begins within the appointment held
\* to overlap it
ConflictsFromWithin(r, a) ==
    LET req_start == parse(r.start_time)
        exist_start == parse(a.start)
        exist_end == parse(a.end)
    IN  exist_start <= req_start /\ req_start < exist_end

\* Conflicts, were the intervals taken closed: touching ends count
ConflictsTouching(r, a) ==
    LET req_start == parse(r.start_time)
        req_end == parse(r.end_time)
        exist_start == parse(a.start)
        exist_end == parse(a.end)
    IN  req_start <= exist_end /\ req_end >= exist_start

\* Conflicts, were an appointment over the very interval of the request let
\* through
ConflictsUnlessSame(r, a) ==
    LET req_start == parse(r.start_time)
        req_end == parse(r.end_time)
        exist_start == parse(a.start)
        exist_end == parse(a.end)
    IN  /\ req_start < exist_end /\ req_end > exist_start
        /\ ~(req_start = exist_start /\ req_end = exist_end)

\* "check for overlap"
Conflicts(r, a) ==
    LET req_start == parse(r.start_time)
        req_end == parse(r.end_time)
        exist_start == parse(a.start)
        exist_end == parse(a.end)
    IN  req_start < exist_end /\ req_end > exist_start

\* FindFreeSlot, were an entry over the very interval of the request taken
\* before one that only overlaps it
FindFreeSlotExactFirst(entries, i, r) ==
    LET usable == {j \in i..Len(entries) :
                      entries[j].start # NoTime /\ entries[j].end # NoTime}
        exact == {j \in usable : ParsesAll(r, entries[j])
                      /\ parse(r.start_time) = parse(entries[j].start)
                      /\ parse(r.end_time) = parse(entries[j].end)}
        match == {j \in usable : ParsesAll(r, entries[j]) /\ SlotMatches(r, entries[j])}
    IN  IF \E j \in usable : ~ParsesAll(r, entries[j])
        THEN [kind |-> "raise", index |-> CHOOSE j \in usable : ~ParsesAll(r, entries[j])]
        ELSE IF exact # {}
        THEN [kind |-> "match", index |-> CHOOSE j \in exact : \A k \in exact : j <= k]
        ELSE IF match # {}
        THEN [kind |-> "match", index |-> CHOOSE j \in match : \A k \in match : j <= k]
        ELSE [kind |-> "none", index |-> 0]

\* FindFreeSlot, were the free appointments found never taken
FindFreeSlotNever(entries, i, r) == [kind |-> "none", index |-> 0]

\* the loop over the free appointments found, from entry i on: the index of
\* the first entry that matches, or the parse error raised before one did
RECURSIVE FindFreeSlot(_, _, _)
FindFreeSlot(entries, i, r) ==
    IF i > Len(entries) THEN [kind |-> "none", index |-> 0]
    ELSE IF entries[i].start # NoTime /\ entries[i].end # NoTime
    THEN IF ~ParsesAll(r, entries[i]) THEN [kind |-> "raise", index |-> i]
         ELSE IF SlotMatches(r, entries[i]) THEN [kind |-> "match", index |-> i]
         ELSE FindFreeSlot(entries, i + 1, r)
    ELSE FindFreeSlot(entries, i + 1, r)

\* FindConflict, were the timestamps of an entry parsed without the test
\* that it has both
RECURSIVE FindConflictUnguarded(_, _, _)
FindConflictUnguarded(entries, i, r) ==
    IF i > Len(entries) THEN [kind |-> "none", index |-> 0]
    ELSE IF entries[i].status \in {"cancelled", "noshow"}
    THEN FindConflictUnguarded(entries, i + 1, r)
    ELSE IF ~ParsesAll(r, entries[i]) THEN [kind |-> "raise", index |-> i]
    ELSE IF Conflicts(r, entries[i]) THEN [kind |-> "conflict", index |-> i]
    ELSE FindConflictUnguarded(entries, i + 1, r)

\* FindConflict, were the loop not left at the first overlap: the last one
\* is reported
RECURSIVE FindConflictLast(_, _, _)
FindConflictLast(entries, i, r) ==
    IF i > Len(entries) THEN [kind |-> "none", index |-> 0]
    ELSE IF FindConflictLast(entries, i + 1, r).kind = "conflict"
    THEN FindConflictLast(entries, i + 1, r)
    ELSE IF entries[i].status \in {"cancelled", "noshow"}
    THEN FindConflictLast(entries, i + 1, r)
    ELSE IF entries[i].start # NoTime /\ entries[i].end # NoTime
    THEN IF ~ParsesAll(r, entries[i]) THEN [kind |-> "raise", index |-> i]
         ELSE IF Conflicts(r, entries[i]) THEN [kind |-> "conflict", index |-> i]
         ELSE FindConflictLast(entries, i + 1, r)
    ELSE FindConflictLast(entries, i + 1, r)

\* FindConflict, were only cancelled appointments skipped
RECURSIVE FindConflictNoShowBlocks(_, _, _)
FindConflictNoShowBlocks(entries, i, r) ==
    IF i > Len(entries) THEN [kind |-> "none", index |-> 0]
    ELSE IF entries[i].status \in {"cancelled"}
    THEN FindConflictNoShowBlocks(entries, i + 1, r)
    ELSE IF entries[i].start # NoTime /\ entries[i].end # NoTime
    THEN IF ~ParsesAll(r, entries[i]) THEN [kind |-> "raise", index |-> i]
         ELSE IF Conflicts(r, entries[i]) THEN [kind |-> "conflict", index |-> i]
         ELSE FindConflictNoShowBlocks(entries, i + 1, r)
    ELSE FindConflictNoShowBlocks(entries, i + 1, r)

\* FindConflict, were the check skipped for a request without practitioner
RECURSIVE FindConflictIfPractitioner(_, _, _)
FindConflictIfPractitioner(entries, i, r) ==
    IF i > Len(entries) \/ r.practitioner_id = None THEN [kind |-> "none", index |-> 0]
    ELSE IF entries[i].status \in {"cancelled", "noshow"}
    THEN FindConflictIfPractitioner(entries, i + 1, r)
    ELSE IF entries[i].start # NoTime /\ entries[i].end # NoTime
    THEN IF ~ParsesAll(r, entries[i]) THEN [kind |-> "raise", index |-> i]
         ELSE IF Conflicts(r, entries[i]) THEN [kind |-> "conflict", index |-> i]
         ELSE FindConflictIfPractitioner(entries, i + 1, r)
    ELSE FindConflictIfPractitioner(entries, i + 1, r)

\* the loop over the appointments found by the conflict search
RECURSIVE FindConflict(_, _, _)
FindConflict(entries, i, r) ==
    IF i > Len(entries) THEN [kind |-> "none", index |-> 0]
    ELSE IF entries[i].status \in {"cancelled", "noshow"}
    THEN FindConflict(entries, i + 1, r)
    ELSE IF entries[i].start # NoTime /\ entries[i].end # NoTime
    THEN IF ~ParsesAll(r, entries[i]) THEN [kind |-> "raise", index |-> i]
         ELSE IF Conflicts(r, entries[i]) THEN [kind |-> "conflict", index |-> i]
         ELSE FindConflict(entries, i + 1, r)
    ELSE FindConflict(entries, i + 1, r)

\* UpdatedAppointment, were the slot moved to the interval of the request
UpdatedAppointmentAtRequest(a, r) ==
    [a EXCEPT !.status = r.status, !.participant = Actors(r),
              !.start = r.start_time, !.end = r.end_time]

\* the copy of the free appointment that is handed to client.update
UpdatedAppointment(a, r) ==
    [a EXCEPT !.status = r.status, !.participant = Actors(r)]

\* NewAppointment, were the status of the request not taken over
NewAppointmentBooked(r) ==
    [id |-> 0, status |-> "booked", start |-> r.start_time, end |-> r.end_time,
     participant |-> Actors(r)]

\* the new appointment that is handed to client.create
NewAppointment(r) ==
    [id |-> 0, status |-> r.status, start |-> r.start_time, end |-> r.end_time,
     participant |-> Actors(r)]

\* Caught, were the exception let through to the caller of the tool
Propagated(exc) ==
    [resourceType |-> "Traceback", code |-> exc, text |-> NoText, entry |-> <<>>]

\* the except clause of create_appointment
Caught(exc) ==
    OperationOutcome("exception", Text("Error creating appointment: " \o exc, NoTime, NoTime))

\* The requests the model issues: bookings of patient x with every choice of
\* practitioner and location over every interval, bookings without a patient
\* id, and bookings of x with p whose timestamps are absent, unparseable or
\* not in order, and bookings of x with p under the status "arrived" in
\* place of the default "booked".
Intervals ==
    {iv \in Timestamps \X Timestamps : parse(iv[1]) < parse(iv[2])}

Request(pat, prac, loc, st, en) ==
    [patient_id |-> pat, practitioner_id |-> prac, location_id |-> loc,
     start_time |-> st, end_time |-> en, status |-> "booked"]

BookingRequests ==
    {Request(x, d, l, iv[1], iv[2]) :
        x \in Patients, d \in Practitioners \cup {None}, l \in Locations \cup {None},
        iv \in Intervals}

RequestTimes == Timestamps \cup {NoTime, Unparseable}

EdgeRequests ==
    {Request(None, "p", None, iv[1], iv[2]) : iv \in Intervals}
    \cup {Request("x", "p", None, t[1], t[2]) : t \in (RequestTimes \X RequestTimes) \ Intervals}
    \cup {[Request("x", "p", None, iv[1], iv[2]) EXCEPT !.status = "arrived"] : iv \in Intervals}

Requests == BookingRequests \cup EdgeRequests

\* Begin, were the required parameters not checked
BeginUnchecked(p, r) ==
    /\ pc[p] = "idle"
    /\ request' = [request EXCEPT ![p] = r]
    /\ pc' = [pc EXCEPT ![p] = "free_search"]
    /\ UNCHANGED <<store, calls, updated_appointment, result>>

\* Entry of the tool: the check of the required parameters, then the search
\* for free appointments is sent.
Begin(p, r) ==
    /\ pc[p] = "idle"
    /\ request' = [request EXCEPT ![p] = r]
    /\ IF r.start_time = NoTime \/ r.end_time = NoTime
       THEN /\ result' = [result EXCEPT ![p] = OperationOutcome("invalid",
                   Text("Both start_time and end_time are required", NoTime, NoTime))]
            /\ pc' = [pc EXCEPT ![p] = "done"]
       ELSE /\ pc' = [pc EXCEPT ![p] = "free_search"]
            /\ UNCHANGED result
    /\ UNCHANGED <<store, calls, updated_appointment>>

\* FreeSearch, were the request sent without a timeout: a search the store
\* never answers leaves the handler waiting
FreeSearchWithoutTimeout(p, fault) ==
    /\ pc[p] = "free_search"
    /\ calls' = [calls EXCEPT ![p] =
           Append(@, <<"GET", SearchEnds(search_params(request[p]), fault)>>)]
    /\ LET r == request[p]
           resp == FHIRClient_search(search_params(r), fault)
           found == FindFreeSlot(resp.value.entry, 1, r)
       IN  IF fault = "timeout"
           THEN /\ pc' = [pc EXCEPT ![p] = "waiting"]
                /\ UNCHANGED <<result, updated_appointment>>
           ELSE IF resp.raised
           THEN /\ result' = [result EXCEPT ![p] = Caught(resp.value.text.msg)]
                /\ pc' = [pc EXCEPT ![p] = "done"]
                /\ UNCHANGED updated_appointment
           ELSE IF found.kind = "raise"
           THEN /\ result' = [result EXCEPT ![p] = Caught("ParserError")]
                /\ pc' = [pc EXCEPT ![p] = "done"]
                /\ UNCHANGED updated_appointment
           ELSE IF found.kind = "match"
           THEN /\ updated_appointment' = [updated_appointment EXCEPT ![p] =
                       <<UpdatedAppointment(resp.value.entry[found.index], r)>>]
                /\ result' = [result EXCEPT ![p] = Caught("AttributeError")]
                /\ pc' = [pc EXCEPT ![p] = "done"]
           ELSE /\ pc' = [pc EXCEPT ![p] = "conflict_search"]
                /\ UNCHANGED <<result, updated_appointment>>
    /\ UNCHANGED <<store, request>>

\* FreeSearch, were the failed update of a matching free appointment passed
\* over and the booking carried on to the conflict check and the create
FreeSearchUpdateThenGoOn(p, fault) ==
    /\ pc[p] = "free_search"
    /\ calls' = [calls EXCEPT ![p] =
           Append(@, <<"GET", SearchEnds(search_params(request[p]), fault)>>)]
    /\ LET r == request[p]
           resp == FHIRClient_search(search_params(r), fault)
           found == FindFreeSlot(resp.value.entry, 1, r)
       IN  IF resp.raised
           THEN /\ result' = [result EXCEPT ![p] = Caught(resp.value.text.msg)]
                /\ pc' = [pc EXCEPT ![p] = "done"]
                /\ UNCHANGED updated_appointment
           ELSE IF found.kind = "raise"
           THEN /\ result' = [result EXCEPT ![p] = Caught("ParserError")]
                /\ pc' = [pc EXCEPT ![p] = "done"]
                /\ UNCHANGED updated_appointment
           ELSE IF found.kind = "match"
           THEN /\ updated_appointment' = [updated_appointment EXCEPT ![p] =
                       <<UpdatedAppointment(resp.value.entry[found.index], r)>>]
                /\ pc' = [pc EXCEPT ![p] = "conflict_search"]
                /\ UNCHANGED result
           ELSE /\ pc' = [pc EXCEPT ![p] = "conflict_search"]
                /\ UNCHANGED <<result, updated_appointment>>
    /\ UNCHANGED <<store, request>>

\* The search for free appointments answers; the handler runs up to its next
\* request.  client.update is no method of FHIRClient: the call raises
\* AttributeError before any request is sent.
FreeSearch(p, fault) ==
    /\ pc[p] = "free_search"
    /\ calls' = [calls EXCEPT ![p] =
           Append(@, <<"GET", SearchEnds(search_params(request[p]), fault)>>)]
    /\ LET r == request[p]
           resp == FHIRClient_search(search_params(r), fault)
           found == FindFreeSlot(resp.value.entry, 1, r)
       IN  IF resp.raised
           THEN /\ result' = [result EXCEPT ![p] = Caught(resp.value.text.msg)]
                /\ pc' = [pc EXCEPT ![p] = "done"]
                /\ UNCHANGED updated_appointment
           ELSE IF found.kind = "raise"
           THEN /\ result' = [result EXCEPT ![p] = Caught("ParserError")]
                /\ pc' = [pc EXCEPT ![p] = "done"]
                /\ UNCHANGED updated_appointment
           ELSE IF found.kind = "match"
           THEN /\ updated_appointment' = [updated_appointment EXCEPT ![p] =
                       <<UpdatedAppointment(resp.value.entry[found.index], r)>>]
                /\ result' = [result EXCEPT ![p] = Caught("AttributeError")]
                /\ pc' = [pc EXCEPT ![p] = "done"]
           ELSE /\ pc' = [pc EXCEPT ![p] = "conflict_search"]
                /\ UNCHANGED <<result, updated_appointment>>
    /\ UNCHANGED <<store, request>>

\* The conflict search answers; on no conflict the create request is sent.
ConflictSearch(p, fault) ==
    /\ pc[p] = "conflict_search"
    /\ calls' = [calls EXCEPT ![p] =
           Append(@, <<"GET", SearchEnds(conflict_search_params(request[p]), fault)>>)]
    /\ LET r == request[p]
           resp == FHIRClient_search(conflict_search_params(r), fault)
           found == FindConflict(resp.value.entry, 1, r)
       IN  IF resp.raised
           THEN /\ result' = [result EXCEPT ![p] = Caught(resp.value.text.msg)]
                /\ pc' = [pc EXCEPT ![p] = "done"]
           ELSE IF found.kind = "raise"
           THEN /\ result' = [result EXCEPT ![p] = Caught("ParserError")]
                /\ pc' = [pc EXCEPT ![p] = "done"]
           ELSE IF found.kind = "conflict"
           THEN /\ result' = [result EXCEPT ![p] = OperationOutcome("conflict",
                       Text("Time slot conflict", resp.value.entry[found.index].start,
                            resp.value.entry[found.index].end))]
                /\ pc' = [pc EXCEPT ![p] = "done"]
           ELSE /\ pc' = [pc EXCEPT ![p] = "create"]
                /\ UNCHANGED result
    /\ UNCHANGED <<store, request, updated_appointment>>

\* Create, were the new appointment written in the place of the latest one
CreateOverwriting(p, fault) ==
    /\ pc[p] = "create"
    /\ calls' = [calls EXCEPT ![p] =
           Append(@, <<"POST", CreateEnds(NewAppointment(request[p]), fault)>>)]
    /\ LET appointment == NewAppointment(request[p])
           resp == FHIRClient_create(appointment, fault)
       IN  /\ store' = IF ~StorePersists(appointment, fault) THEN store
                       ELSE IF store = <<>> THEN <<StoreCreate(appointment)>>
                       ELSE [store EXCEPT ![Len(store)] = StoreCreate(appointment)]
           /\ result' = [result EXCEPT ![p] =
                  IF resp.raised THEN Caught(resp.value.text.msg) ELSE resp.value]
    /\ pc' = [pc EXCEPT ![p] = "done"]
    /\ UNCHANGED <<request, updated_appointment>>

\* Create, were a create the store failed sent once more
CreateRetriedOnce(p, fault) ==
    /\ pc[p] = "create"
    /\ calls' = [calls EXCEPT ![p] =
           Append(@, <<"POST", CreateEnds(NewAppointment(request[p]), fault)>>)]
    /\ LET appointment == NewAppointment(request[p])
           resp == FHIRClient_create(appointment, fault)
           again == CreateEnds(appointment, fault) # "none" /\ Len(calls[p]) < 3
       IN  /\ store' = IF StorePersists(appointment, fault)
                       THEN Append(store, StoreCreate(appointment))
                       ELSE store
           /\ result' = [result EXCEPT ![p] =
                  IF again THEN @
                  ELSE IF resp.raised THEN Caught(resp.value.text.msg) ELSE resp.value]
           /\ pc' = [pc EXCEPT ![p] = IF again THEN "create" ELSE "done"]
    /\ UNCHANGED <<request, updated_appointment>>

\* Create, were the write made only while the practitioner's schedule is
\* still clear (a lock held, or a conditional write, from search to create)
CreateIfStillClear(p, fault) ==
    /\ pc[p] = "create"
    /\ calls' = [calls EXCEPT ![p] =
           Append(@, <<"POST", CreateEnds(NewAppointment(request[p]), fault)>>)]
    /\ LET appointment == NewAppointment(request[p])
           resp == FHIRClient_create(appointment, fault)
           found == FindConflict(StoreSearch(conflict_search_params(request[p])), 1, request[p])
       IN  IF found.kind = "conflict"
           THEN /\ store' = store
                /\ result' = [result EXCEPT ![p] = OperationOutcome("conflict", NoText)]
           ELSE /\ store' = IF StorePersists(appointment, fault)
                            THEN Append(store, StoreCreate(appointment))
                            ELSE store
                /\ result' = [result EXCEPT ![p] =
                       IF resp.raised THEN Caught(resp.value.text.msg) ELSE resp.value]
    /\ pc' = [pc EXCEPT ![p] = "done"]
    /\ UNCHANGED <<request, updated_appointment>>

\* The create request is handled by the server and its answer is returned.
Create(p, fault) ==
    /\ pc[p] = "create"
    /\ calls' = [calls EXCEPT ![p] =
           Append(@, <<"POST", CreateEnds(NewAppointment(request[p]), fault)>>)]
    /\ LET appointment == NewAppointment(request[p])
           resp == FHIRClient_create(appointment, fault)
       IN  /\ store' = IF StorePersists(appointment, fault)
                       THEN Append(store, StoreCreate(appointment))
                       ELSE store
           /\ result' = [result EXCEPT ![p] =
                  IF resp.raised THEN Caught(resp.value.text.msg) ELSE resp.value]
    /\ pc' = [pc EXCEPT ![p] = "done"]
    /\ UNCHANGED <<request, updated_appointment>>

-----------------------------------------------------------------------------
(* The appointments other systems have put into the store *)

ExternalAppointments ==
    {[id |-> 0, status |-> "free", start |-> iv[1], end |-> iv[2], participant |-> <<a>>] :
        iv \in Intervals, a \in {Ref("Practitioner", "p"), Ref("Location", "l")}}
    \cup
    {[id |-> 0, status |-> st, start |-> iv[1], end |-> iv[2],
      participant |-> <<Ref("Patient", "x"), Ref("Practitioner", "p")>>] :
        st \in {"booked", "cancelled", "noshow"}, iv \in Intervals}

\* the server gave each its id
Stored(as) == [i \in 1..Len(as) |-> [as[i] EXCEPT !.id = i]]

InitAttempts ==
    /\ pc = [p \in Procs |-> "idle"]
    /\ request = [p \in Procs |-> NoRequest]
    /\ calls = [p \in Procs |-> <<>>]
    /\ updated_appointment = [p \in Procs |-> <<>>]
    /\ result = [p \in Procs |-> NoResult]

Init ==
    /\ store \in {<<>>} \cup {Stored(<<a>>) : a \in ExternalAppointments}
    /\ InitAttempts

\* The invocations of the tool run concurrently on one event loop; here each
\* books a practitioner, and the store answers every request.
PractitionerRequests ==
    {r \in BookingRequests : r.practitioner_id # None /\ r.location_id = None}

Next ==
    \E p \in Procs :
        \/ \E r \in PractitionerRequests : Begin(p, r)
        \/ FreeSearch(p, "none")
        \/ ConflictSearch(p, "none")
        \/ Create(p, "none")

Spec == Init /\ [][Next]_vars

\* The invocations are processed one at a time, a1 before a2: a2 starts only
\* when a1 has returned.  The store answers every request.
Returned(p) == pc[p] = "done"

SeqNext ==
    \/ \E r \in BookingRequests : Begin("a1", r)
    \/ FreeSearch("a1", "none")
    \/ ConflictSearch("a1", "none")
    \/ Create("a1", "none")
    \/ Returned("a1") /\ \E r \in BookingRequests : Begin("a2", r)
    \/ FreeSearch("a2", "none")
    \/ ConflictSearch("a2", "none")
    \/ Create("a2", "none")

SeqSpec == Init /\ [][SeqNext]_vars

\* One invocation, with any request, against a store that may fail.
SoloNext ==
    \/ \E r \in Requests : Begin("a1", r)
    \/ \E fault \in Faults : FreeSearch("a1", fault)
    \/ \E fault \in Faults : ConflictSearch("a1", fault)
    \/ \E fault \in Faults : Create("a1", fault)

SoloSpec == Init /\ [][SoloNext]_vars

\* One invocation booking patient x against a store of two appointments.
PairInit ==
    /\ store \in {Stored(<<a, b>>) : a \in ExternalAppointments, b \in ExternalAppointments}
    /\ InitAttempts

PairNext ==
    \/ \E r \in BookingRequests : Begin("a1", r)
    \/ FreeSearch("a1", "none")
    \/ ConflictSearch("a1", "none")
    \/ Create("a1", "none")

PairSpec == PairInit /\ [][PairNext]_vars

\* Appointments of other systems that the store lists although they do not
\* read as a reservation: the end is missing, or is no timestamp.
MalformedAppointments ==
    {[id |-> 0, status |-> "free", start |-> st, end |-> en,
      participant |-> <<Ref("Practitioner", "p")>>] :
        st \in Timestamps, en \in {NoTime, Unparseable}}
    \cup
    {[id |-> 0, status |-> "booked", start |-> st, end |-> en,
      participant |-> <<Ref("Patient", "x"), Ref("Practitioner", "p")>>] :
        st \in Timestamps, en \in {NoTime, Unparseable}}

\* Bookings of practitioner p, one at a time, a1 before a2, against a store
\* without free appointments that answers every request; a booking may ask
\* for the status "cancelled".
PractitionerPRequests ==
    {r \in BookingRequests : r.practitioner_id = "p"}
    \cup {[Request("x", "p", None, iv[1], iv[2]) EXCEPT !.status = "cancelled"] : iv \in Intervals}

OneByOneInit ==
    /\ Init
    /\ \A i \in 1..Len(store) : store[i].status # "free"

OneByOneNext ==
    \/ \E r \in PractitionerPRequests : Begin("a1", r)
    \/ FreeSearch("a1", "none")
    \/ ConflictSearch("a1", "none")
    \/ Create("a1", "none")
    \/ Returned("a1") /\ \E r \in PractitionerPRequests : Begin("a2", r)
    \/ FreeSearch("a2", "none")
    \/ ConflictSearch("a2", "none")
    \/ Create("a2", "none")

OneByOneSpec == OneByOneInit /\ [][OneByOneNext]_vars

\* Free appointments of practitioner p at location l
FreeAtLocation ==
    {[id |-> 0, status |-> "free", start |-> iv[1], end |-> iv[2],
      participant |-> <<Ref("Practitioner", "p"), Ref("Location", "l")>>] : iv \in Intervals}

\* One invocation, with any request, against a store that may fail and may
\* hold an appointment that does not read as a reservation.
AnyInit ==
    /\ store \in {<<>>} \cup {Stored(<<a>>) :
                        a \in ExternalAppointments \cup FreeAtLocation \cup MalformedAppointments}
    /\ InitAttempts

AnySpec == AnyInit /\ [][SoloNext]_vars

\* The same, where every request the client has sent is answered or runs
\* into the client's timeout of 30 seconds: the handler is resumed.
Answered ==
    \/ \E fault \in Faults : FreeSearch("a1", fault)
    \/ \E fault \in Faults : ConflictSearch("a1", fault)
    \/ \E fault \in Faults : Create("a1", fault)

\* the stores of AnyInit whose appointment, if any, is of the first hour
LiveInit ==
    /\ AnyInit
    /\ \A i \in 1..Len(store) :
          store[i].start = <<0>> /\ store[i].end \in {<<1>>, NoTime, Unparseable}

LiveSpec == LiveInit /\ [][SoloNext]_vars /\ WF_vars(Answered)

-----------------------------------------------------------------------------
(* Vocabulary of the properties *)

ActorsOf(a) == {a.participant[i] : i \in 1..Len(a.participant)}

\* a reservation that occupies its actors: neither free nor cancelled nor a
\* no-show
Occupies(a) == a.status \notin {"free", "cancelled", "noshow"}

\* half-open intervals intersect
Overlap(s1, e1, s2, e2) == parse(s1) < parse(e2) /\ parse(s2) < parse(e1)

DoubleBooked(s, actor) ==
    \E i, j \in 1..Len(s) :
        /\ i < j
        /\ Occupies(s[i]) /\ Occupies(s[j])
        /\ actor \in ActorsOf(s[i]) \cap ActorsOf(s[j])
        /\ Overlap(s[i].start, s[i].end, s[j].start, s[j].end)

AllActors ==
    {Ref("Patient", x) : x \in Patients}
    \cup {Ref("Practitioner", d) : d \in Practitioners}
    \cup {Ref("Location", l) : l \in Locations}

IsAppointment(v) == v.resourceType = "Appointment"
IsError(v, code) == v.resourceType = "OperationOutcome" /\ v.code = code
Methods(cs) == {cs[i][1] : i \in 1..Len(cs)}

\* how the latest store call ended
Ended(cs) == cs[Len(cs)][2]

\* a request lacking a timestamp; a request whose timestamps make no interval
Absent(r) == r.start_time = NoTime \/ r.end_time = NoTime

BadInterval(r) ==
    /\ ~Absent(r)
    /\ \/ ~CanParse(r.start_time)
       \/ ~CanParse(r.end_time)
       \/ parse(r.start_time) >= parse(r.end_time)

-----------------------------------------------------------------------------
(* C1 *)

\* C1: with the bookings processed one at a time, no patient, practitioner or
\* location ever has two overlapping reservations that are both neither
\* cancelled (or no-show) nor free.
C1_NoDoubleBooking == \A actor \in AllActors : ~DoubleBooked(store, actor)

-----------------------------------------------------------------------------
(* C2 *)

SamePractitionerOverlapping ==
    /\ request["a1"].practitioner_id # None
    /\ request["a1"].practitioner_id = request["a2"].practitioner_id
    /\ Overlap(request["a1"].start_time, request["a1"].end_time,
               request["a2"].start_time, request["a2"].end_time)

\* both conflict searches have come back clear
BothPassedDetection ==
    \A p \in Procs :
        \/ pc[p] = "create"
        \/ pc[p] = "done" /\ IsAppointment(result[p])

\* C2: when two concurrent bookings of one practitioner over overlapping
\* intervals have both passed conflict detection, nothing stops either
\* create: each one succeeds and adds its reservation, and when both have
\* returned the practitioner is double-booked.
C2_RaceNotExcluded ==
    [][\A p \in Procs :
          (BothPassedDetection /\ SamePractitionerOverlapping
             /\ pc[p] = "create" /\ pc'[p] = "done")
          => /\ IsAppointment(result'[p])
             /\ Len(store') = Len(store) + 1
             /\ (\A q \in Procs : pc'[q] = "done")
                  => DoubleBooked(store', Ref("Practitioner", request[p].practitioner_id))]_vars

\* both concurrent bookings returned an appointment and the practitioner is
\* double-booked
C2_BothBooked ==
    /\ \A p \in Procs : pc[p] = "done" /\ IsAppointment(result[p])
    /\ SamePractitionerOverlapping
    /\ DoubleBooked(store, Ref("Practitioner", request["a1"].practitioner_id))

-----------------------------------------------------------------------------
(* C3 *)

SameInterval(r, a) ==
    parse(r.start_time) = parse(a.start) /\ parse(r.end_time) = parse(a.end)

\* C3: a booking of patient X with practitioner P, default status, made while
\* the store holds a Free reservation of P over the identical interval,
\* returns that reservation (same id), which is then Booked in the store with
\* X among its actors; the store has as many reservations as before and no
\* create was issued.  (Stated for the requests that name no location.)
C3_FreeSlotReused ==
    [][\A p \in Procs : \A i \in 1..Len(store) :
          (/\ pc[p] = "free_search" /\ pc'[p] # "free_search"
           /\ request[p].practitioner_id # None
           /\ request[p].location_id = None
           /\ request[p].status = "booked"
           /\ store[i].status = "free"
           /\ Ref("Practitioner", request[p].practitioner_id) \in ActorsOf(store[i])
           /\ SameInterval(request[p], store[i]))
          => /\ pc'[p] = "done"
             /\ IsAppointment(result'[p])
             /\ result'[p].entry[1].id = store[i].id
             /\ Len(store') = Len(store)
             /\ store'[i].status = "booked"
             /\ Ref("Patient", request[p].patient_id) \in ActorsOf(store'[i])
             /\ "POST" \notin Methods(calls'[p])]_vars

-----------------------------------------------------------------------------
(* C4 *)

\* the reservations of the request's practitioner that overlap the request
OverlappingOfPractitioner(s, r) ==
    {i \in 1..Len(s) :
        /\ Ref("Practitioner", r.practitioner_id) \in ActorsOf(s[i])
        /\ Overlap(r.start_time, r.end_time, s[i].start, s[i].end)}

\* those that are neither cancelled nor no-show
Blocking(s, r) ==
    {i \in OverlappingOfPractitioner(s, r) : s[i].status \notin {"cancelled", "noshow"}}

First(S) == CHOOSE i \in S : \A j \in S : i <= j

\* C4: when no free reservation matched and the practitioner's list holds a
\* reservation, neither cancelled nor no-show, that overlaps the request, the
\* booking ends with the error "conflict" quoting the start and end of the
\* first such reservation in store order; nothing is created or updated.
C4_ConflictRejected ==
    [][\A p \in Procs :
          (/\ pc[p] = "conflict_search" /\ pc'[p] # "conflict_search"
           /\ request[p].practitioner_id # None
           /\ Blocking(store, request[p]) # {})
          => /\ pc'[p] = "done"
             /\ IsError(result'[p], "conflict")
             /\ result'[p].text.start = store[First(Blocking(store, request[p]))].start
             /\ result'[p].text.end = store[First(Blocking(store, request[p]))].end
             /\ Methods(calls'[p]) = {"GET"}
             /\ updated_appointment'[p] = <<>>
             /\ store' = store]_vars

\* a booking rejected over the first of two blocking reservations that differ
C4_RejectedOnFirstOfTwo ==
    /\ pc["a1"] = "done"
    /\ IsError(result["a1"], "conflict")
    /\ Blocking(store, request["a1"]) = {1, 2}
    /\ <<store[1].start, store[1].end>> # <<store[2].start, store[2].end>>
    /\ result["a1"].text.start = store[1].start
    /\ result["a1"].text.end = store[1].end

-----------------------------------------------------------------------------
(* C5 *)

\* C5: for a booking over a proper interval, when every reservation of its
\* practitioner that overlaps it is cancelled or no-show (and no free
\* reservation matched), the conflict check does not reject it: unless the
\* search answer is unreadable, the booking goes on to create.  A create the
\* store answers returns the new reservation, which the store then holds.
C5_CancelledNeverBlocks ==
    [][\A p \in Procs :
          (request[p].practitioner_id # None /\ ~BadInterval(request[p])) =>
            /\ (/\ pc[p] = "conflict_search" /\ pc'[p] # "conflict_search"
                /\ Blocking(store, request[p]) = {})
               => /\ ~IsError(result'[p], "conflict")
                  /\ Ended(calls'[p]) # "badjson" => pc'[p] = "create"
            /\ (pc[p] = "create" /\ pc'[p] # "create" /\ Ended(calls'[p]) = "none")
               => /\ pc'[p] = "done"
                  /\ IsAppointment(result'[p])
                  /\ store' = Append(store, result'[p].entry[1])
                  /\ result'[p].entry[1].id \notin {store[i].id : i \in 1..Len(store)}]_vars

\* a booking created over a cancelled or no-show reservation of its
\* practitioner that overlaps it
C5_CreatedOverCancelled ==
    /\ pc["a1"] = "done"
    /\ IsAppointment(result["a1"])
    /\ Len(store) = 2
    /\ 1 \in OverlappingOfPractitioner(store, request["a1"])
    /\ store[1].status \in {"cancelled", "noshow"}
    /\ store[2] = result["a1"].entry[1]

-----------------------------------------------------------------------------
(* C6 *)

PatientOnly(r) == r.practitioner_id = None /\ r.location_id = None

\* C6 as claimed: a booking that names no practitioner and no location
\* skips free-slot reuse and conflict detection and always creates a new
\* reservation, whatever the store holds (the store answering every call).
C6_PatientOnlyAlwaysCreates ==
    \A p \in Procs :
        (/\ pc[p] = "done" /\ PatientOnly(request[p])
         /\ \A i \in 1..Len(calls[p]) : calls[p][i][2] = "none")
        => IsAppointment(result[p]) /\ updated_appointment[p] = <<>>

\* the reservations of any actor that overlap the request
OverlappingAny(s, r) ==
    {i \in 1..Len(s) : Overlap(r.start_time, r.end_time, s[i].start, s[i].end)}

\* C6 as amended: a booking that names no practitioner and no location runs
\* both searches without an actor filter.  It takes the reuse path exactly
\* when the free search returns a free reservation of the date that overlaps
\* the request; failing that, it is rejected with "conflict" exactly when the
\* conflict search returns a reservation of the date, neither cancelled nor
\* no-show, that overlaps the request; only otherwise does it go on to
\* create, and a create the store answers adds the reservation.  (A search
\* whose answer is unreadable ends the attempt; a search that fails otherwise
\* returns nothing.)
C6_PatientOnlyIsChecked ==
    [][\A p \in Procs :
          PatientOnly(request[p]) =>
            /\ (pc[p] = "free_search" /\ pc'[p] # "free_search")
               => IF /\ Ended(calls'[p]) = "none"
                     /\ \E i \in OverlappingAny(store, request[p]) : store[i].status = "free"
                  THEN pc'[p] = "done" /\ updated_appointment'[p] # <<>>
                       /\ Len(store') = Len(store)
                  ELSE IF Ended(calls'[p]) = "badjson"
                  THEN pc'[p] = "done" /\ IsError(result'[p], "exception")
                  ELSE pc'[p] = "conflict_search"
            /\ (pc[p] = "conflict_search" /\ pc'[p] # "conflict_search")
               => IF /\ Ended(calls'[p]) = "none"
                     /\ \E i \in OverlappingAny(store, request[p]) :
                           store[i].status \notin {"cancelled", "noshow"}
                  THEN pc'[p] = "done" /\ IsError(result'[p], "conflict") /\ store' = store
                  ELSE IF Ended(calls'[p]) = "badjson"
                  THEN pc'[p] = "done" /\ IsError(result'[p], "exception")
                  ELSE pc'[p] = "create"
            /\ (pc[p] = "create" /\ pc'[p] # "create" /\ Ended(calls'[p]) = "none")
               => IsAppointment(result'[p]) /\ store' = Append(store, result'[p].entry[1])]_vars

\* a booking without practitioner and location rejected over a reservation
\* of practitioner p
C6_PatientOnlyRejected ==
    /\ pc["a1"] = "done"
    /\ PatientOnly(request["a1"])
    /\ IsError(result["a1"], "conflict")
    /\ Methods(calls["a1"]) = {"GET"}
    /\ \E i \in OverlappingAny(store, request["a1"]) :
          store[i].status = "booked" /\ Ref("Practitioner", "p") \in ActorsOf(store[i])

-----------------------------------------------------------------------------
(* C7 *)

\* C7: a booking whose timestamps are both present but do not make an
\* interval (start >= end, or one of them unparseable) makes no store call
\* and ends with an error.
C7_BadIntervalRejected ==
    \A p \in Procs :
        (pc[p] # "idle" /\ BadInterval(request[p]))
        => /\ calls[p] = <<>>
           /\ pc[p] = "done" => result[p].resourceType = "OperationOutcome"

-----------------------------------------------------------------------------
(* C8 *)

\* C8: a booking whose start or end timestamp is absent returns the error
\* "invalid" at once: it makes no store call and leaves the store as it was.
C8_AbsentTimestampRejected ==
    [][\A p \in Procs :
          (pc'[p] # "idle" /\ Absent(request'[p]))
          => /\ pc'[p] = "done"
             /\ IsError(result'[p], "invalid")
             /\ calls'[p] = <<>>
             /\ store' = store]_vars

\* a booking with an end but no start, rejected
C8_RejectedWithoutStart ==
    /\ pc["a1"] = "done"
    /\ request["a1"].start_time = NoTime /\ request["a1"].end_time \in Timestamps
    /\ IsError(result["a1"], "invalid")
    /\ calls["a1"] = <<>>

-----------------------------------------------------------------------------
(* C9 *)

\* C9: a booking without a patient id makes no store call, ends with an
\* error, and no reservation is created for it.
C9_MissingPatientRejected ==
    /\ \A p \in Procs :
          (pc[p] # "idle" /\ request[p].patient_id = None)
          => /\ calls[p] = <<>>
             /\ pc[p] = "done" => result[p].resourceType = "OperationOutcome"
    /\ \A i \in 1..Len(store) : Ref("Patient", None) \notin ActorsOf(store[i])

-----------------------------------------------------------------------------
(* C10 *)

\* NotFound, Unauthorized, Unreachable, Malformed
StoreFailures == {"401", "404", "timeout", "badjson"}

\* C10: when a search fails, it is the last store call of the attempt (no
\* create or update follows) and the attempt ends with an error.
C10_SearchFailurePropagates ==
    \A p \in Procs : \A k \in 1..Len(calls[p]) :
        (calls[p][k][1] = "GET" /\ calls[p][k][2] \in StoreFailures)
        => /\ k = Len(calls[p])
           /\ pc[p] = "done"
           /\ result[p].resourceType = "OperationOutcome"

-----------------------------------------------------------------------------
(* C11 *)

\* the mutating calls an attempt has made: the POSTs sent by client.create
\* and the call of client.update
Mutations(p) ==
    Cardinality({k \in 1..Len(calls[p]) : calls[p][k][1] = "POST"})
    + (IF updated_appointment[p] # <<>> THEN 1 ELSE 0)

\* C11: at every moment of an attempt, on every path, the creates and
\* updates it has called number 0 or 1.
C11_AtMostOneMutation == \A p \in Procs : Mutations(p) <= 1

\* an attempt that has returned after one create, and the store failed it
C11_OneCreateThatFailed ==
    /\ pc["a1"] = "done"
    /\ Mutations("a1") = 1
    /\ Len(calls["a1"]) = 3
    /\ calls["a1"][3] = <<"POST", "401">>

-----------------------------------------------------------------------------
(* C12 *)

\* C12: whatever the request, whatever the store answers and whatever
\* records it lists, an attempt that has ended has returned an Appointment or
\* an OperationOutcome with a code and a text: no exception left the tool.
C12_StructuredResult ==
    \A p \in Procs :
        pc[p] = "done"
        => \/ IsAppointment(result[p]) /\ Len(result[p].entry) = 1
           \/ /\ result[p].resourceType = "OperationOutcome"
              /\ result[p].code # ""
              /\ result[p].text.msg # ""

\* a well-formed booking that ended in the error made of the parse failure
\* of a listed appointment whose end is no timestamp
C12_ParseFailureReturned ==
    /\ pc["a1"] = "done"
    /\ request["a1"] \in BookingRequests
    /\ Len(store) = 1 /\ store[1].end = Unparseable
    /\ \A k \in 1..Len(calls["a1"]) : calls["a1"][k][2] = "none"
    /\ result["a1"] = Caught("ParserError")

-----------------------------------------------------------------------------
(* C13 *)

\* C13: an attempt returns the error "conflict" only from a conflict search
\* that the store answered, and that listed a reservation, neither cancelled
\* nor no-show, overlapping the request, which the error quotes; so no
\* attempt whose latest store call failed returns "conflict".
C13_ConflictOnlyFromListedOverlap ==
    \A p \in Procs :
        IsError(result[p], "conflict")
        => /\ pc[p] = "done"
           /\ Len(calls[p]) = 2
           /\ calls[p][2] = <<"GET", "none">>
           /\ CanParse(request[p].start_time) /\ CanParse(request[p].end_time)
           /\ \E i \in 1..Len(store) :
                 /\ StoreMatches(store[i], conflict_search_params(request[p]))
                 /\ store[i].status \notin {"cancelled", "noshow"}
                 /\ CanParse(store[i].start) /\ CanParse(store[i].end)
                 /\ Overlap(request[p].start_time, request[p].end_time,
                            store[i].start, store[i].end)
                 /\ result[p].text.start = store[i].start
                 /\ result[p].text.end = store[i].end

\* a booking rejected with "conflict" by an answered conflict search, after
\* its search for free appointments had failed
C13_ConflictAfterFailedSearch ==
    /\ pc["a1"] = "done"
    /\ IsError(result["a1"], "conflict")
    /\ calls["a1"] = <<(<<"GET", "401">>), (<<"GET", "none">>)>>

-----------------------------------------------------------------------------
(* C14 *)

\* the first booking created a reservation and the second, made after the
\* first returned, was the identical request
SameRequestAgain ==
    /\ pc["a1"] = "done" /\ IsAppointment(result["a1"])
    /\ pc["a2"] = "done" /\ request["a2"] = request["a1"]

\* the reservations in the store that are what the request asks for
ReservationsFor(r) ==
    {i \in 1..Len(store) :
        /\ store[i].status = r.status
        /\ store[i].start = r.start_time /\ store[i].end = r.end_time
        /\ store[i].participant = Actors(r)}

\* C14 as claimed: the identical request issued again after the first one
\* created its reservation succeeds too, and the store holds two distinct
\* reservations for it.
C14_SecondAlsoCreates ==
    SameRequestAgain
    => /\ IsAppointment(result["a2"])
       /\ result["a2"].entry[1].id # result["a1"].entry[1].id
       /\ Cardinality(ReservationsFor(request["a1"])) = 2

\* C14 as amended: the identical request issued again after the first one
\* created its reservation is rejected with "conflict", quoting the interval
\* of that reservation; nothing is created for it, and the store holds one
\* reservation for the request.
C14_SecondIsRejected ==
    SameRequestAgain
    => /\ IsError(result["a2"], "conflict")
       /\ result["a2"].text.start = request["a1"].start_time
       /\ result["a2"].text.end = request["a1"].end_time
       /\ Methods(calls["a2"]) = {"GET"}
       /\ ReservationsFor(request["a1"]) = {Len(store)}
       /\ store[Len(store)] = result["a1"].entry[1]

\* a booking of patient x alone created, then asked again and rejected
C14_PatientOnlyRejectedAgain ==
    /\ SameRequestAgain
    /\ PatientOnly(request["a1"])
    /\ IsError(result["a2"], "conflict")

-----------------------------------------------------------------------------
(* C15 *)

\* C15: every call the client has made returned to its caller; one that the
\* store failed returned an OperationOutcome with a code and a text.
C15_ClientReturnsOutcome ==
    \A p \in Procs : \A k \in 1..Len(calls[p]) :
        LET out == FHIRClient_req(calls[p][k][2], NoResult)
        IN  /\ ~out.raised
            /\ calls[p][k][2] # "none"
               => /\ out.value.resourceType = "OperationOutcome"
                  /\ out.value.code # ""
                  /\ out.value.text.msg # ""

-----------------------------------------------------------------------------
(* C16 *)

\* C16: every attempt that has started ends; a store call that timed out
\* came back to the handler as an error outcome of the client, and the
\* attempt whose create timed out returns that error.
C16_AttemptTerminates ==
    /\ \A p \in Procs : (pc[p] # "idle") ~> (pc[p] = "done")
    /\ [](\A p \in Procs : \A k \in 1..Len(calls[p]) :
            calls[p][k][2] = "timeout"
            => /\ pc[p] \in {"conflict_search", "create", "done"}
               /\ ~FHIRClient_req("timeout", NoResult).raised
               /\ IsError(FHIRClient_req("timeout", NoResult).value, "exception")
               /\ calls[p][k][1] = "POST"
                  => pc[p] = "done" /\ IsError(result[p], "exception"))

\* an attempt that has ended although each of its three store calls timed out
C16_EndedAfterTimeouts ==
    /\ pc["a1"] = "done"
    /\ Len(calls["a1"]) = 3
    /\ \A k \in 1..3 : calls["a1"][k][2] = "timeout"
    /\ IsError(result["a1"], "exception")

-----------------------------------------------------------------------------
(* C17 *)

\* the free reservations the free search lists that overlap the request
ReusableFree(s, r) ==
    {i \in 1..Len(s) :
        /\ StoreMatches(s[i], search_params(r))
        /\ Overlap(r.start_time, r.end_time, s[i].start, s[i].end)}

\* the reservations the conflict search lists, neither cancelled nor
\* no-show, that overlap the request
ListedConflicts(s, r) ==
    {i \in 1..Len(s) :
        /\ StoreMatches(s[i], conflict_search_params(r))
        /\ s[i].status \notin {"cancelled", "noshow"}
        /\ Overlap(r.start_time, r.end_time, s[i].start, s[i].end)}

\* C17: an attempt's store calls are, in this order, the free search, the
\* conflict search and the create.  The conflict search is sent only when
\* the free search listed no reusable free reservation, the create only when
\* the conflict search listed no conflict.  When the free search lists an
\* overlapping free reservation while an overlapping booked one exists too,
\* the attempt takes the reuse path and ends without a conflict search.
C17_ReuseThenConflictThenCreate ==
    [][\A p \in Procs :
          /\ calls'[p] # calls[p]
             => \/ pc[p] = "free_search" /\ calls'[p] = <<(<<"GET", "none">>)>>
                \/ pc[p] = "conflict_search"
                     /\ calls'[p] = <<(<<"GET", "none">>), (<<"GET", "none">>)>>
                \/ pc[p] = "create" /\ pc'[p] = "done"
                     /\ calls'[p] = <<(<<"GET", "none">>), (<<"GET", "none">>), (<<"POST", "none">>)>>
          /\ pc'[p] = "conflict_search" /\ pc[p] # "conflict_search"
             => pc[p] = "free_search" /\ ReusableFree(store, request[p]) = {}
          /\ pc'[p] = "create" /\ pc[p] # "create"
             => pc[p] = "conflict_search" /\ ListedConflicts(store, request[p]) = {}
          /\ (/\ pc[p] = "free_search" /\ pc'[p] # "free_search"
              /\ ReusableFree(store, request[p]) # {}
              /\ \E j \in OverlappingAny(store, request[p]) : store[j].status = "booked")
             => /\ pc'[p] = "done"
                /\ updated_appointment'[p] # <<>>
                /\ updated_appointment'[p][1].id = store[First(ReusableFree(store, request[p]))].id
                /\ Len(calls'[p]) = 1]_vars

\* an attempt that took the reuse path on a free reservation of practitioner
\* p, without a conflict search, although a booked reservation of p that
\* overlaps the request comes first in the store
C17_ReusePathBeforeConflict ==
    /\ pc["a1"] = "done"
    /\ Len(store) = 2
    /\ store[1].status = "booked" /\ store[2].status = "free"
    /\ Blocking(store, request["a1"]) = {1}
    /\ ReusableFree(store, request["a1"]) = {2}
    /\ updated_appointment["a1"] # <<>>
    /\ Len(calls["a1"]) = 1

-----------------------------------------------------------------------------
(* C18 *)

\* the stored reservation an update was built from
SlotOf(u) == CHOOSE i \in 1..Len(store) : store[i].id = u.id

\* C18: the reservation handed to the update has every actor the matched
\* free reservation had, and the patient of the request, and the practitioner
\* and the location the request names.
C18_ActorsExtended ==
    \A p \in Procs :
        updated_appointment[p] # <<>>
        => LET u == updated_appointment[p][1]
           IN  /\ ActorsOf(store[SlotOf(u)]) \subseteq ActorsOf(u)
               /\ Ref("Patient", request[p].patient_id) \in ActorsOf(u)
               /\ request[p].practitioner_id # None
                  => Ref("Practitioner", request[p].practitioner_id) \in ActorsOf(u)
               /\ request[p].location_id # None
                  => Ref("Location", request[p].location_id) \in ActorsOf(u)

-----------------------------------------------------------------------------
(* C19 *)

\* C19: a free reservation taken for reuse involves the practitioner the
\* request names, and the location it names.
C19_ReusedSlotInvolvesActors ==
    \A p \in Procs :
        updated_appointment[p] # <<>>
        => LET slot == store[SlotOf(updated_appointment[p][1])]
           IN  /\ request[p].practitioner_id # None
                  => Ref("Practitioner", request[p].practitioner_id) \in ActorsOf(slot)
               /\ request[p].location_id # None
                  => Ref("Location", request[p].location_id) \in ActorsOf(slot)

-----------------------------------------------------------------------------
(* C20 *)

LocationOnly(r) == r.practitioner_id = None /\ r.location_id # None

\* C20 as claimed: a booking that names a location and no practitioner is
\* never rejected with "conflict".
C20_LocationOnlyNeverRejected ==
    \A p \in Procs :
        LocationOnly(request[p]) => ~IsError(result[p], "conflict")

\* C20 as amended: for a booking that names a location and no practitioner
\* the conflict search is made without an actor filter.  The booking is
\* rejected with "conflict" exactly when that search returns a reservation of
\* the date, of whatever actors, neither cancelled nor no-show, that overlaps
\* the request; otherwise it goes on to create.  (A search whose answer is
\* unreadable ends the attempt; a search that fails otherwise returns
\* nothing.)
C20_LocationOnlyIsChecked ==
    [][\A p \in Procs :
          (/\ LocationOnly(request[p])
           /\ pc[p] = "conflict_search" /\ pc'[p] # "conflict_search")
          => /\ calls'[p][2][1] = "GET"
             /\ IF /\ Ended(calls'[p]) = "none"
                   /\ \E i \in OverlappingAny(store, request[p]) :
                         store[i].status \notin {"cancelled", "noshow"}
                THEN /\ pc'[p] = "done"
                     /\ IsError(result'[p], "conflict")
                     /\ store' = store
                ELSE IF Ended(calls'[p]) = "badjson"
                THEN pc'[p] = "done" /\ IsError(result'[p], "exception")
                ELSE pc'[p] = "create" /\ result'[p] = NoResult]_vars

\* a booking of location l alone rejected over a booked reservation of
\* practitioner p that does not involve the location
C20_LocationOnlyRejected ==
    /\ pc["a1"] = "done"
    /\ LocationOnly(request["a1"])
    /\ IsError(result["a1"], "conflict")
    /\ \E i \in OverlappingAny(store, request["a1"]) :
          /\ store[i].status = "booked"
          /\ Ref("Location", request["a1"].location_id) \notin ActorsOf(store[i])

-----------------------------------------------------------------------------
(* C21 *)

\* C21: a booking is rejected with "conflict" only over a reservation that
\* is not free: the first listed reservation that overlaps it, the one the
\* error quotes, has a status other than "free".
C21_FreeNeverConflicts ==
    \A p \in Procs :
        IsError(result[p], "conflict")
        => store[First(ListedConflicts(store, request[p]))].status # "free"

-----------------------------------------------------------------------------
(* C22 *)

\* C22: of the free reservations the free search returns, the one taken for
\* reuse is the first, in the order returned, that equals or overlaps the
\* request; a later one over the very interval is not preferred.
C22_FirstFreeMatchWins ==
    [][\A p \in Procs :
          (/\ pc[p] = "free_search" /\ pc'[p] # "free_search"
           /\ ReusableFree(store, request[p]) # {})
          => /\ updated_appointment'[p] # <<>>
             /\ updated_appointment'[p][1].id = store[First(ReusableFree(store, request[p]))].id
             /\ \A j \in ReusableFree(store, request[p]) :
                   SlotOf(updated_appointment'[p][1]) <= j]_vars

\* the first of two free reservations taken although it only overlaps the
\* request and the second is over the very interval of the request
C22_OverlapTakenBeforeExact ==
    /\ pc["a1"] = "done"
    /\ Len(store) = 2
    /\ ReusableFree(store, request["a1"]) = {1, 2}
    /\ ~SameInterval(request["a1"], store[1])
    /\ SameInterval(request["a1"], store[2])
    /\ updated_appointment["a1"] # <<>>
    /\ updated_appointment["a1"][1].id = store[1].id

-----------------------------------------------------------------------------
(* C23 *)

\* the request begins where the reservation ends, or ends where it begins
Touches(r, a) ==
    parse(r.start_time) = parse(a.end) \/ parse(r.end_time) = parse(a.start)

\* C23: for a booking over a proper interval, a free reservation taken for
\* reuse and a reservation quoted by a "conflict" share an instant with the
\* request, so neither merely touches it; and when every reservation in the
\* store merely touches the request, an answered free search reuses none and
\* an answered conflict search rejects nothing: the booking goes on to
\* create.
C23_BackToBackDoNotOverlap ==
    [][\A p \in Procs :
          (~Absent(request[p]) /\ ~BadInterval(request[p]) /\ pc'[p] # pc[p]) =>
            /\ (pc[p] = "free_search" /\ updated_appointment'[p] # <<>>)
               => /\ ~Touches(request[p], updated_appointment'[p][1])
                  /\ Overlap(request[p].start_time, request[p].end_time,
                             updated_appointment'[p][1].start, updated_appointment'[p][1].end)
            /\ (pc[p] = "conflict_search" /\ IsError(result'[p], "conflict"))
               => /\ parse(request[p].start_time) # parse(result'[p].text.end)
                  /\ parse(request[p].end_time) # parse(result'[p].text.start)
                  /\ Overlap(request[p].start_time, request[p].end_time,
                             result'[p].text.start, result'[p].text.end)
            /\ (/\ pc[p] \in {"free_search", "conflict_search"}
                /\ Ended(calls'[p]) = "none"
                /\ \A i \in 1..Len(store) : Touches(request[p], store[i]))
               => pc'[p] = (IF pc[p] = "free_search" THEN "conflict_search" ELSE "create")]_vars

\* a booking created for practitioner p right after a booked reservation of p
C23_CreatedBackToBack ==
    /\ pc["a1"] = "done"
    /\ IsAppointment(result["a1"])
    /\ Len(store) = 2
    /\ store[1].status = "booked"
    /\ Ref("Practitioner", request["a1"].practitioner_id) \in ActorsOf(store[1])
    /\ request["a1"].start_time = store[1].end

-----------------------------------------------------------------------------
(* C24 *)

\* the request over the interval of a reservation, and the reservation over
\* the interval of a request
AsRequest(a) == Request("x", None, None, a.start, a.end)
AsAppointment(r) == NewAppointment(r)

\* C24: for the interval a of every booking under way and the interval b of
\* every reservation in the store, the test of the conflict check and the
\* test of the free-slot check each give the same answer for (request a,
\* existing b) as for (request b, existing a), and that answer is
\* a.start < b.end and b.start < a.end.
C24_OverlapSymmetric ==
    \A p \in Procs : \A i \in 1..Len(store) :
        pc[p] # "idle"
        => LET a == request[p]
               b == store[i]
               formula == parse(a.start_time) < parse(b.end)
                            /\ parse(b.start) < parse(a.end_time)
           IN  /\ Conflicts(a, b) = Conflicts(AsRequest(b), AsAppointment(a))
               /\ Conflicts(a, b) = formula
               /\ SlotMatches(a, b) = SlotMatches(AsRequest(b), AsAppointment(a))
               /\ SlotMatches(a, b) = formula

\* a booking rejected over a reservation that begins within the request
\* and ends after it
C24_RejectedOverLaterStart ==
    /\ pc["a1"] = "done"
    /\ IsError(result["a1"], "conflict")
    /\ Blocking(store, request["a1"]) = {2}
    /\ parse(request["a1"].start_time) < parse(store[2].start)
    /\ parse(request["a1"].end_time) < parse(store[2].end)

-----------------------------------------------------------------------------
(* C25 *)

\* the actors a created reservation is to have
ExpectedActors(r) ==
    {Ref("Patient", r.patient_id)}
    \cup (IF r.practitioner_id # None THEN {Ref("Practitioner", r.practitioner_id)} ELSE {})
    \cup (IF r.location_id # None THEN {Ref("Location", r.location_id)} ELSE {})

\* C25: the reservation a create puts into the store has the status of the
\* request, the start and end of the request, and as actors exactly the
\* patient, the practitioner if one was given and the location if one was
\* given, each once; it is what an answered create returns.
C25_CreatedContent ==
    [][\A p \in Procs :
          (pc[p] = "create" /\ pc'[p] = "done" /\ Len(store') = Len(store) + 1)
          => LET a == store'[Len(store')]
             IN  /\ a.status = request[p].status
                 /\ a.start = request[p].start_time
                 /\ a.end = request[p].end_time
                 /\ ActorsOf(a) = ExpectedActors(request[p])
                 /\ Len(a.participant) = Cardinality(ExpectedActors(request[p]))
                 /\ Ended(calls'[p]) = "none" => result'[p] = Resource(a)]_vars

\* a booking under the status "arrived" created with that status
C25_CreatedArrived ==
    /\ pc["a1"] = "done"
    /\ request["a1"].status = "arrived"
    /\ IsAppointment(result["a1"])
    /\ result["a1"].entry[1].status = "arrived"
    /\ store[Len(store)] = result["a1"].entry[1]

-----------------------------------------------------------------------------
(* C26 *)

\* the error a failed create is returned as
FailureOf(ended) ==
    IF ended \in {"401", "404"} THEN "http-" \o ended ELSE "exception"

\* C26: an attempt makes the free search, the conflict search and the
\* create at most once each, in that order.  The update of the reuse path,
\* which fails, ends the attempt with that failure after the one search; a
\* create that fails ends the attempt with that failure; an attempt that
\* has ended makes no further call.
C26_NoRetryAfterFailedWrite ==
    [][\A p \in Procs :
          /\ calls'[p] # calls[p]
             => /\ Len(calls'[p]) = Len(calls[p]) + 1
                /\ Len(calls'[p]) = (IF pc[p] = "free_search" THEN 1
                                     ELSE IF pc[p] = "conflict_search" THEN 2 ELSE 3)
                /\ calls'[p][Len(calls'[p])][1] = (IF pc[p] = "create" THEN "POST" ELSE "GET")
          /\ pc[p] = "done"
             => pc'[p] = "done" /\ calls'[p] = calls[p] /\ result'[p] = result[p]
          /\ (updated_appointment[p] = <<>> /\ updated_appointment'[p] # <<>>)
             => /\ pc'[p] = "done"
                /\ IsError(result'[p], "exception")
                /\ Len(calls'[p]) = 1
          /\ (pc[p] = "create" /\ calls'[p] # calls[p] /\ Ended(calls'[p]) # "none")
             => /\ pc'[p] = "done"
                /\ IsError(result'[p], FailureOf(Ended(calls'[p])))]_vars

\* an attempt that ended with the error of its create, which the store
\* answered with status 404, after three calls
C26_EndedOnFailedCreate ==
    /\ pc["a1"] = "done"
    /\ Len(calls["a1"]) = 3
    /\ calls["a1"][3] = <<"POST", "404">>
    /\ IsError(result["a1"], "http-404")

-----------------------------------------------------------------------------
(* C27 *)

\* C27: no step of an attempt removes or alters a reservation of the store:
\* the store changes only by a create, which adds one reservation after the
\* others.  The step that ends an attempt with "conflict" or with the
\* validation error leaves the store as it is, and that attempt has sent no
\* create; the step that returns an Appointment has added exactly it.
C27_ExistingReservationsKept ==
    [][/\ Len(store') \in {Len(store), Len(store) + 1}
       /\ \A i \in 1..Len(store) : store'[i] = store[i]
       /\ store' # store
          => \E p \in Procs : /\ pc[p] = "create" /\ pc'[p] = "done"
                               /\ calls'[p][Len(calls'[p])][1] = "POST"
       /\ \A p \in Procs :
             (pc[p] # "done" /\ pc'[p] = "done")
             => /\ (IsError(result'[p], "conflict") \/ IsError(result'[p], "invalid"))
                   => store' = store /\ "POST" \notin Methods(calls'[p])
                /\ IsAppointment(result'[p])
                   => store' = Append(store, result'[p].entry[1])]_vars

\* a booking created while the store holds a no-show reservation, which is
\* still there, first and under its id
C27_NoShowStillThere ==
    /\ pc["a1"] = "done"
    /\ IsAppointment(result["a1"])
    /\ Len(store) = 2
    /\ store[1].status = "noshow" /\ store[1].id = 1
    /\ store[2].id = 2

-----------------------------------------------------------------------------
(* C28 *)

\* C28: the reservation handed to the update has the id, the start and the
\* end of the free reservation that matched, whatever the interval of the
\* request.
C28_ReusedSlotKeepsInterval ==
    \A p \in Procs :
        updated_appointment[p] # <<>>
        => \E i \in ReusableFree(store, request[p]) :
              /\ updated_appointment[p][1].id = store[i].id
              /\ updated_appointment[p][1].start = store[i].start
              /\ updated_appointment[p][1].end = store[i].end

\* an update built from a free reservation that begins before the request
\* and ends within it
C28_PartialOverlapKept ==
    /\ updated_appointment["a1"] # <<>>
    /\ parse(updated_appointment["a1"][1].start) < parse(request["a1"].start_time)
    /\ parse(updated_appointment["a1"][1].end) < parse(request["a1"].end_time)
    /\ updated_appointment["a1"][1].start = store[1].start
    /\ updated_appointment["a1"][1].end = store[1].end

-----------------------------------------------------------------------------
(* C29 *)

\* reservations as a search may list them, without a start
LackingStart ==
    {[a EXCEPT !.start = NoTime] : a \in ExternalAppointments \cup MalformedAppointments}

Lacking(a) == a.start = NoTime \/ a.end = NoTime

\* C29: a free reservation taken for reuse and a reservation quoted by a
\* "conflict" have a start and an end.  When every reservation in the store
\* lacks its end, an answered free search reuses none and an answered
\* conflict search rejects nothing, whatever the status and whatever the
\* request.  Both loops pass over a listed entry without a start.
C29_LackingStartOrEndIgnored ==
    [][\A p \in Procs :
          (pc[p] \in {"free_search", "conflict_search"} /\ pc'[p] # pc[p]) =>
            /\ updated_appointment'[p] # <<>>
               => ~Lacking(store[SlotOf(updated_appointment'[p][1])])
            /\ IsError(result'[p], "conflict")
               => result'[p].text.start # NoTime /\ result'[p].text.end # NoTime
            /\ (/\ Ended(calls'[p]) = "none"
                /\ \A i \in 1..Len(store) : Lacking(store[i]))
               => /\ pc'[p] = (IF pc[p] = "free_search" THEN "conflict_search" ELSE "create")
                  /\ updated_appointment'[p] = <<>>
                  /\ result'[p] = NoResult
            /\ \A a \in LackingStart :
                  /\ FindFreeSlot(<<a>>, 1, request[p]).kind = "none"
                  /\ FindConflict(<<a>>, 1, request[p]).kind = "none"]_vars

\* a booking of practitioner p created although the store lists a booked
\* reservation of p, from the start of the request on, that has no end
C29_CreatedOverEndless ==
    /\ pc["a1"] = "done"
    /\ IsAppointment(result["a1"])
    /\ Len(store) = 2
    /\ store[1].status = "booked" /\ store[1].end = NoTime
    /\ store[1].start = request["a1"].start_time
    /\ Ref("Practitioner", request["a1"].practitioner_id) \in ActorsOf(store[1])

-----------------------------------------------------------------------------
(* C30 *)

NoFree == \A i \in 1..Len(store) : store[i].status # "free"

\* the first booking created a reservation for a practitioner and the
\* second, made after the first returned, named the same practitioner
SamePractitionerAfterCreate ==
    /\ pc["a1"] = "done" /\ IsAppointment(result["a1"])
    /\ pc["a2"] = "done"
    /\ request["a1"].practitioner_id # None
    /\ request["a2"].practitioner_id = request["a1"].practitioner_id

\* what C30 says of the two bookings
SecondKeptApart ==
       /\ Overlap(request["a1"].start_time, request["a1"].end_time,
                  request["a2"].start_time, request["a2"].end_time)
          => /\ IsError(result["a2"], "conflict")
             /\ "POST" \notin Methods(calls["a2"])
             /\ store[Len(store)] = result["a1"].entry[1]
       /\ IsAppointment(result["a2"])
          => ~Overlap(result["a1"].entry[1].start, result["a1"].entry[1].end,
                      result["a2"].entry[1].start, result["a2"].entry[1].end)

\* C30 as amended: with the bookings processed one at a time and no free
\* reservation in the store, a booking that names the practitioner of a
\* reservation created before it under a status other than cancelled or
\* no-show, and overlaps that reservation, ends in "conflict" and adds
\* nothing; so the reservations created for one practitioner that occupy
\* the practitioner do not overlap.
C30_OccupyingNeverDoubleBooked ==
    (NoFree /\ SamePractitionerAfterCreate
       /\ result["a1"].entry[1].status \notin {"cancelled", "noshow"})
    => SecondKeptApart

\* C30 as claimed: with the bookings processed one at a time and no free
\* reservation in the store, a booking that names the practitioner of a
\* reservation created before it and overlaps that reservation ends in
\* "conflict" and adds nothing; so the reservations created for one
\* practitioner do not overlap.
C30_CreatePathNeverDoubleBooks ==
    (NoFree /\ SamePractitionerAfterCreate)
    => /\ Overlap(request["a1"].start_time, request["a1"].end_time,
                  request["a2"].start_time, request["a2"].end_time)
          => /\ IsError(result["a2"], "conflict")
             /\ "POST" \notin Methods(calls["a2"])
             /\ store[Len(store)] = result["a1"].entry[1]
       /\ IsAppointment(result["a2"])
          => ~Overlap(result["a1"].entry[1].start, result["a1"].entry[1].end,
                      result["a2"].entry[1].start, result["a2"].entry[1].end)

\* a second booking of practitioner p, at location l, rejected over the
\* reservation the first booking created, which it overlaps in part
C30_SecondRejectedOverFirst ==
    /\ NoFree /\ SamePractitionerAfterCreate
    /\ request["a2"].location_id # None
    /\ request["a1"].start_time # request["a2"].start_time
    /\ request["a1"].end_time # request["a2"].end_time
    /\ IsError(result["a2"], "conflict")
    /\ result["a2"].text.start = request["a1"].start_time
    /\ result["a2"].text.end = request["a1"].end_time

====
